---------------------------- MODULE Spec2Model ----------------------------
(***************************************************************************)
(* A model of src/bot.py: the Discord video-converter bot.                 *)
(*                                                                         *)
(* The bot's single handler, on_ready, walks the configured channels one   *)
(* after the other.  It is modelled as a sequential process whose program  *)
(* counter pc stops at every external call (channel lookup, history        *)
(* fetch, download, file-size read / compression, reply, file removal,     *)
(* sleep, summary send, close).  Each external call is a nondeterministic  *)
(* choice over the outcomes the call can have.  The chat platform's users  *)
(* are the environment: they post messages while the bot runs and between  *)
(* two runs of the process.                                                *)
(***************************************************************************)
EXTENDS Integers, Sequences, FiniteSets, TLC

(***************************************************************************)
(* Configuration (bot.py lines 9-16).                                      *)
(***************************************************************************)
MAX_DISCORD_FILESIZE_MB == 8

\* The source configures eight channel ids; the model walks two, which is
\* enough to have a channel that is the last one and a channel that is not.
CHANNEL_IDS == <<911, 912>>

LOOKBACK_DAYS == 3

\* timedelta(days=1), timedelta(seconds=1) and asyncio.sleep(60), in seconds.
DaySeconds == 86400
OffsetSeconds == 1
CooldownSeconds == 60

(***************************************************************************)
(* Bounds of the model.                                                    *)
(***************************************************************************)
\* Number of messages the users post in one behaviour.
MaxUserMsgs == 3
\* Stands for limit=500 of the backward scan for the bot's last message.
ScanLimit == 2
\* Stands for the result cap of channel.history() when no limit is passed.
HistoryLimit == 2
\* Number of fragments after the scheme in the URLs given to get_platform.
MaxUrlLen == 3

(***************************************************************************)
(* URLs.  A URL is a sequence of text fragments; "s in url" of the source  *)
(* is the occurrence of the fragments of s as a contiguous run.            *)
(***************************************************************************)
Fragments == {"https://", "instagram.com", "/reel", "youtube.com", "youtu.be", "reddit.com", "/x"}

Contains(url, pat) ==
    \E i \in 1..(Len(url) - Len(pat) + 1) :
        \A j \in 1..Len(pat) : url[i + j - 1] = pat[j]

get_platform_reddit_first(url) ==
    IF Contains(url, <<"reddit.com">>) THEN "reddit"
    ELSE IF Contains(url, <<"instagram.com", "/reel">>) THEN "instagram"
    ELSE IF Contains(url, <<"youtube.com">>) \/ Contains(url, <<"youtu.be">>) THEN "youtube"
    ELSE "unknown"

get_platform(url) ==
    IF Contains(url, <<"instagram.com", "/reel">>) THEN "instagram"
    ELSE IF Contains(url, <<"youtube.com">>) \/ Contains(url, <<"youtu.be">>) THEN "youtube"
    ELSE IF Contains(url, <<"reddit.com">>) THEN "reddit"
    ELSE "unknown"

(***************************************************************************)
(* Messages.  The content of a message is its sequence of whitespace-      *)
(* separated words; a word is a sequence of fragments.                     *)
(***************************************************************************)
URL_YT == <<"https://", "youtube.com", "/x">>
URL_IG == <<"https://", "instagram.com", "/reel">>
URL_PLAIN == <<"https://", "/x">>
WORD_BARE == <<"youtube.com", "/x">>

\* What the users post: one video link, or a text with a word that is no
\* link, a video link, a link to no known platform and a second video link.
Contents == { <<URL_YT>>, <<WORD_BARE, URL_YT, URL_PLAIN, URL_IG>> }

\* re.findall(r'(https?://\S+)', content): the words that carry a scheme.
FindUrls(content) == SelectSeq(content, LAMBDA w : Len(w) > 0 /\ w[1] = "https://")

Channels == {CHANNEL_IDS[i] : i \in 1..Len(CHANNEL_IDS)}

VARIABLES
    pc,               \* position of the process / of on_ready
    run,              \* 1 in the first run of the process, 2 in the second
    now,              \* the clock, in seconds
    history,          \* channel id -> the channel's messages, oldest first
    disk,             \* path -> size in MB, for the files of the working directory
    connected,        \* the client's connection to the platform
    processed_counts, \* channel id -> count                       (line 98)
    idx,              \* index of the channel being walked         (line 100)
    last_time,        \* the resume cursor                         (lines 116-119)
    new_messages,     \* the messages fetched for the channel      (line 122)
    mi,               \* index of msg in new_messages              (line 124)
    ui,               \* index of url in urls                      (line 127)
    platform,         \* result of get_platform                   (line 128)
    video_file,       \* result of download_video                  (line 131)
    video_path,       \* file to attach                            (line 134)
    sent,             \* the messages sent to the log channel
    attempts,         \* log: downloads attempted in this run
    skipped           \* log: channels found inaccessible in this run

vars == <<pc, run, now, history, disk, connected, processed_counts, idx, last_time,
          new_messages, mi, ui, platform, video_file, video_path, sent, attempts, skipped>>

walk == <<idx, last_time, new_messages, mi, ui, platform, video_file, video_path>>
logs == <<attempts, skipped>>

NoPath == <<>>

AllMessages == UNION {{history[c][i] : i \in 1..Len(history[c])} : c \in Channels}
UserMessages == {m \in AllMessages : m.author = "user"}

channel_id == CHANNEL_IDS[idx]
msg == new_messages[mi]
urls == FindUrls(msg.content)
url == urls[ui]

(***************************************************************************)
(* The file system.                                                        *)
(***************************************************************************)
Exists(d, path) == path \in DOMAIN d
WriteFile(d, path, size) == [p \in (DOMAIN d) \cup {path} |-> IF p = path THEN size ELSE d[p]]
RemoveFile(d, path) == [p \in (DOMAIN d) \ {path} |-> d[p]]

Sizes == {MAX_DISCORD_FILESIZE_MB, MAX_DISCORD_FILESIZE_MB + 1}

Init ==
    /\ pc = "main"
    /\ run = 1
    /\ now = 0
    /\ history = [c \in Channels |-> <<>>]
    /\ disk = [p \in {} |-> 0]
    /\ connected = FALSE
    /\ processed_counts = [c \in Channels |-> 0]
    /\ idx = 1
    /\ last_time = 0
    /\ new_messages = <<>>
    /\ mi = 1
    /\ ui = 1
    /\ platform = "none"
    /\ video_file = NoPath
    /\ video_path = NoPath
    /\ sent = <<>>
    /\ attempts = <<>>
    /\ skipped = {}

(***************************************************************************)
(* The environment: a user posts a message in a watched channel.           *)
(*                                                                         *)
(* The bot reads a channel's history in ScanHistory and FetchNew and       *)
(* writes it in Reply; a post commutes with every other step.  So posts    *)
(* are taken at two places: before the process connects, in any channel    *)
(* (which is also after the previous run), and while the bot works on a    *)
(* fetched message, in the channel being walked, before the reply and      *)
(* after it.                                                               *)
(***************************************************************************)
\* A message is identified by its channel and its position in the channel.
NextId(c) == <<c, Len(history[c]) + 1>>

BotMessages == {m \in AllMessages : m.author = "bot"}

PostChannels ==
    IF pc = "main" THEN Channels
    ELSE IF pc \in {"reply", "cleanup"} THEN {channel_id}
    ELSE {}

\* The message is stamped now or a second later.  A stamp is compared with
\* the bot's earlier messages only, so time passes once the bot has one.
PostDelays == IF BotMessages = {} THEN {0} ELSE {0, OffsetSeconds}

Post(cs, contents, delays) ==
    /\ Cardinality(UserMessages) < MaxUserMsgs
    /\ \E c \in PostChannels \cap cs, content \in contents, d \in delays :
         /\ now' = now + d
         /\ history' = [history EXCEPT ![c] = Append(@,
                [id |-> NextId(c), author |-> "user", created_at |-> now + d,
                 content |-> content, reference |-> <<>>, run |-> 0])]
    /\ UNCHANGED <<pc, run, disk, connected, processed_counts, walk, sent, logs>>

\* Users post in every watched channel.  In a single run no scan comes after
\* a reply in the same channel, so the stamps need not differ.
UserPost == Post(Channels, Contents, {0})

\* Users post single video links in every watched channel.
UserPostLink == Post(Channels, {<<URL_YT>>}, PostDelays)

(***************************************************************************)
(* The process: lines 175-180.                                             *)
(***************************************************************************)
\* __main__: without DISCORD_BOT_TOKEN the process exits at once; with it,
\* client.run connects.
Main ==
    /\ pc = "main"
    /\ \E token \in BOOLEAN :
         IF token
         THEN /\ pc' = "connecting"
              /\ connected' = TRUE
         ELSE /\ pc' = "exited"
              /\ UNCHANGED connected
    /\ UNCHANGED <<run, now, history, disk, processed_counts, walk, sent, logs>>

\* on_ready, lines 94-98: the counts start at 0 for every configured channel.
Ready ==
    /\ pc = "connecting"
    /\ pc' = "channel"
    /\ processed_counts' = [c \in Channels |-> 0]
    /\ idx' = 1
    /\ UNCHANGED <<run, now, history, disk, connected, last_time, new_messages, mi, ui,
                   platform, video_file, video_path, sent, logs>>

(***************************************************************************)
(* The channel loop, lines 100-159.                                        *)
(***************************************************************************)
\* Where the loop "for idx, channel_id in enumerate(CHANNEL_IDS)" goes after
\* the channel at index i.
AfterChannel(i) == IF i < Len(CHANNEL_IDS) THEN "channel" ELSE "summary"

\* Lines 101-104: client.get_channel; "continue" when the channel is None.
GetChannel ==
    /\ pc = "channel"
    /\ \E found \in BOOLEAN :
         IF found
         THEN /\ pc' = "scan"
              /\ UNCHANGED <<idx, skipped>>
         ELSE /\ pc' = AfterChannel(idx)
              /\ idx' = idx + 1
              /\ skipped' = skipped \cup {channel_id}
    /\ UNCHANGED <<run, now, history, disk, connected, processed_counts, last_time,
                   new_messages, mi, ui, video_file, video_path, sent, attempts,
                   platform>>

\* channel.history(limit=n): the n most recent messages, newest first.
Reverse(s) == [i \in 1..Len(s) |-> s[Len(s) + 1 - i]]
Recent(h, n) == Reverse(SubSeq(h, IF Len(h) > n THEN Len(h) - n + 1 ELSE 1, Len(h)))

\* Lines 110-114: the first message of the scan whose author is the bot.
LastBotMsg(h) ==
    LET scan == Recent(h, ScanLimit)
        own == SelectSeq(scan, LAMBDA m : m.author = "bot")
    IN  IF Len(own) > 0 THEN <<own[1]>> ELSE <<>>

ResumeCursor_no_offset(h, t) ==
    LET last_bot_msg == LastBotMsg(h)
    IN  IF Len(last_bot_msg) > 0
        THEN last_bot_msg[1].created_at
        ELSE t - LOOKBACK_DAYS * DaySeconds

\* Lines 116-119.
ResumeCursor(h, t) ==
    LET last_bot_msg == LastBotMsg(h)
    IN  IF Len(last_bot_msg) > 0
        THEN last_bot_msg[1].created_at + OffsetSeconds
        ELSE t - LOOKBACK_DAYS * DaySeconds

\* Lines 109-119.  The history request can fail; nothing catches it.
ScanHistory ==
    /\ pc = "scan"
    /\ \E ok \in BOOLEAN :
         IF ok
         THEN /\ pc' = "fetch"
              /\ last_time' = ResumeCursor(history[channel_id], now)
         ELSE /\ pc' = "aborted"
              /\ UNCHANGED last_time
    /\ UNCHANGED <<run, now, history, disk, connected, processed_counts, idx,
                   new_messages, mi, ui, video_file, video_path, sent, logs, platform>>

\* channel.history(after=t, oldest_first=True): no limit is passed, so the
\* library returns at most its default number of messages.
Prefix(s, n) == SubSeq(s, 1, IF Len(s) > n THEN n ELSE Len(s))

HistoryAfter_inclusive(h, t) ==
    Prefix(SelectSeq(h, LAMBDA m : m.created_at >= t), HistoryLimit)

HistoryAfter(h, t) == Prefix(SelectSeq(h, LAMBDA m : m.created_at > t), HistoryLimit)

\* Line 122.
FetchNew ==
    /\ pc = "fetch"
    /\ \E ok \in BOOLEAN :
         IF ok
         THEN /\ pc' = "url"
              /\ new_messages' = HistoryAfter(history[channel_id], last_time)
              /\ mi' = 1
              /\ ui' = 1
         ELSE /\ pc' = "aborted"
              /\ UNCHANGED <<new_messages, mi, ui>>
    /\ UNCHANGED <<run, now, history, disk, connected, processed_counts, idx, last_time,
                   video_file, video_path, sent, logs, platform>>

NextUrl_no_platform_test ==
    /\ pc = "url"
    /\ IF mi > Len(new_messages)
       THEN /\ pc' = "channel_done"
            /\ UNCHANGED <<mi, ui, platform>>
       ELSE IF ui > Len(urls)
       THEN /\ mi' = mi + 1
            /\ ui' = 1
            /\ UNCHANGED <<pc, platform>>
       ELSE /\ platform' = get_platform(url)
            /\ pc' = "download"
            /\ UNCHANGED <<mi, ui>>
    /\ UNCHANGED <<run, now, history, disk, connected, processed_counts, idx, last_time,
                   new_messages, video_file, video_path, sent, logs>>

\* Lines 124-129: the two inner loops and the platform test.
NextUrl ==
    /\ pc = "url"
    /\ IF mi > Len(new_messages)
       THEN /\ pc' = "channel_done"
            /\ UNCHANGED <<mi, ui, platform>>
       ELSE IF ui > Len(urls)
       THEN /\ mi' = mi + 1
            /\ ui' = 1
            /\ UNCHANGED <<pc, platform>>
       ELSE /\ platform' = get_platform(url)
            /\ IF platform' # "unknown"
               THEN /\ pc' = "download"
                    /\ UNCHANGED <<mi, ui>>
               ELSE /\ ui' = ui + 1
                    /\ UNCHANGED <<pc, mi>>
    /\ UNCHANGED <<run, now, history, disk, connected, processed_counts, idx, last_time,
                   new_messages, video_file, video_path, sent, logs>>

(***************************************************************************)
(* download_video, lines 32-56.                                            *)
(***************************************************************************)
\* The file name is built from the video's metadata (uploader and title), not
\* from the URL.  The videos of the model share one title, so that the names
\* of two downloads can collide as they can in the working directory.
FileName(u) == <<"uploader title", ".mp4">>

\* "ok": both extractor calls succeed and the file is written.  "fail": an
\* exception; the except clause returns ("", "").
DownloadOutcomes == {"ok", "fail"}

download_video(d, u, outcome, size) ==
    CASE outcome = "ok" ->
           [filename |-> FileName(u), disk |-> WriteFile(d, FileName(u), size)]
      [] outcome = "fail" ->
           [filename |-> NoPath, disk |-> d]

\* Line 131.
Download ==
    /\ pc = "download"
    /\ \E outcome \in DownloadOutcomes, size \in Sizes :
         LET r == download_video(disk, url, outcome, size)
         IN  /\ disk' = r.disk
             /\ video_file' = r.filename
             /\ IF r.filename # NoPath
                THEN /\ pc' = "size"
                     /\ UNCHANGED ui
                ELSE /\ pc' = "url"
                     /\ ui' = ui + 1
    /\ attempts' = Append(attempts, [msg |-> msg.id, ui |-> ui, url |-> url])
    /\ UNCHANGED <<run, now, history, connected, processed_counts, idx, last_time,
                   new_messages, mi, video_path, sent, skipped, platform>>

(***************************************************************************)
(* compress_video, lines 58-86.                                            *)
(***************************************************************************)
OutputPath(input_path) == <<"compressed_">> \o input_path

\* "ok": write_videofile completes.  "fail": an exception before the output
\* file is created (VideoFileClip, the bitrate).  "fail_partial":
\* write_videofile raises after the encoder created the output file; the
\* except clause returns input_path and removes nothing.
CompressOutcomes == {"ok", "fail", "fail_partial"}

compress_video(d, input_path, max_mb, outcome) ==
    IF d[input_path] <= max_mb
    THEN [path |-> input_path, disk |-> d]
    ELSE LET output_path == OutputPath(input_path)
         IN  CASE outcome = "ok" ->
                    [path |-> output_path, disk |-> WriteFile(d, output_path, max_mb)]
               [] outcome = "fail" ->
                    [path |-> input_path, disk |-> d]
               [] outcome = "fail_partial" ->
                    [path |-> input_path, disk |-> WriteFile(d, output_path, 0)]

\* Lines 133-134.  os.path.getsize (line 133, and line 60 inside
\* compress_video) is outside every try: when it raises, on_ready ends there.
SizeGate ==
    /\ pc = "size"
    /\ \E readable \in BOOLEAN, outcome \in CompressOutcomes :
         IF readable /\ Exists(disk, video_file)
         THEN LET size_mb == disk[video_file]
                  r == IF size_mb > MAX_DISCORD_FILESIZE_MB
                       THEN compress_video(disk, video_file, MAX_DISCORD_FILESIZE_MB, outcome)
                       ELSE [path |-> video_file, disk |-> disk]
              IN  /\ pc' = "reply"
                  /\ video_path' = r.path
                  /\ disk' = r.disk
         ELSE /\ pc' = "aborted"
              /\ UNCHANGED <<video_path, disk>>
    /\ UNCHANGED <<run, now, history, connected, processed_counts, idx, last_time,
                   new_messages, mi, ui, video_file, sent, logs, platform>>

(***************************************************************************)
(* Reply and clean-up, lines 136-152.                                      *)
(***************************************************************************)
\* Lines 141-146: the count is incremented after a reply that did not raise.
Reply ==
    /\ pc = "reply"
    /\ \E ok \in BOOLEAN :
         /\ IF ok
            THEN /\ history' = [history EXCEPT ![channel_id] = Append(@,
                        [id |-> NextId(channel_id), author |-> "bot", created_at |-> now,
                         content |-> <<>>, reference |-> msg.id, run |-> run])]
                 /\ processed_counts' = [processed_counts EXCEPT ![channel_id] = @ + 1]
            ELSE UNCHANGED <<history, processed_counts>>
    /\ pc' = "cleanup"
    /\ UNCHANGED <<run, now, disk, connected, idx, last_time, new_messages, mi, ui,
                   video_file, video_path, sent, logs, platform>>

\* Lines 148-152.
CleanUp ==
    /\ pc = "cleanup"
    /\ LET d1 == IF Exists(disk, video_file) THEN RemoveFile(disk, video_file) ELSE disk
           d2 == IF video_path # video_file /\ Exists(d1, video_path)
                 THEN RemoveFile(d1, video_path) ELSE d1
       IN  disk' = d2
    /\ ui' = ui + 1
    /\ pc' = "url"
    /\ UNCHANGED <<run, now, history, connected, processed_counts, idx, last_time,
                   new_messages, mi, video_file, video_path, sent, logs, platform>>

(***************************************************************************)
(* End of a channel, lines 154-159.                                        *)
(***************************************************************************)
ChannelDone_no_cooldown ==
    /\ pc = "channel_done"
    /\ pc' = AfterChannel(idx)
    /\ idx' = idx + 1
    /\ UNCHANGED <<run, now, history, disk, connected, processed_counts, last_time,
                   new_messages, mi, ui, video_file, video_path, sent, logs, platform>>

ChannelDone ==
    /\ pc = "channel_done"
    /\ IF idx < Len(CHANNEL_IDS)
       THEN /\ pc' = "sleep"
            /\ UNCHANGED idx
       ELSE /\ pc' = AfterChannel(idx)
            /\ idx' = idx + 1
    /\ UNCHANGED <<run, now, history, disk, connected, processed_counts, last_time,
                   new_messages, mi, ui, video_file, video_path, sent, logs, platform>>

\* Line 159: asyncio.sleep(60), then the next iteration.
Sleep ==
    /\ pc = "sleep"
    /\ now' = now + CooldownSeconds
    /\ pc' = AfterChannel(idx)
    /\ idx' = idx + 1
    /\ UNCHANGED <<run, history, disk, connected, processed_counts, last_time,
                   new_messages, mi, ui, video_file, video_path, sent, logs, platform>>

(***************************************************************************)
(* The summary, lines 161-173.                                             *)
(***************************************************************************)
\* The keys of the dict built at line 98, in insertion order.
RECURSIVE Keys(_)
Keys(ids) ==
    IF ids = <<>> THEN <<>>
    ELSE LET front == Keys(SubSeq(ids, 1, Len(ids) - 1))
             k == ids[Len(ids)]
         IN  IF \E i \in 1..Len(front) : front[i] = k THEN front ELSE Append(front, k)

\* Line 164: one line per item of processed_counts.
SummaryLine(c, count) == <<"total", count, "msg converted in", c>>
SummaryText_nonzero_only(counts) ==
    LET keys == SelectSeq(Keys(CHANNEL_IDS), LAMBDA k : counts[k] > 0)
    IN  [i \in 1..Len(keys) |-> SummaryLine(keys[i], counts[keys[i]])]

SummaryText(counts) ==
    LET keys == Keys(CHANNEL_IDS)
    IN  [i \in 1..Len(keys) |-> SummaryLine(keys[i], counts[keys[i]])]

\* Lines 162-171.
Summary ==
    /\ pc = "summary"
    /\ \E found \in BOOLEAN, ok \in BOOLEAN :
         IF found /\ ok
         THEN sent' = Append(sent, SummaryText(processed_counts))
         ELSE UNCHANGED sent
    /\ pc' = "close"
    /\ UNCHANGED <<run, now, history, disk, connected, processed_counts, walk, logs>>

\* Line 173.
Close ==
    /\ pc = "close"
    /\ connected' = FALSE
    /\ pc' = "closed"
    /\ UNCHANGED <<run, now, history, disk, processed_counts, walk, sent, logs>>

(***************************************************************************)
(* The process is started a second time, at once or after the lookback     *)
(* window has passed.  The working directory and the channels persist;     *)
(* everything on_ready holds starts afresh.                                *)
(***************************************************************************)
Restart ==
    /\ pc \in {"closed", "aborted", "exited"}
    /\ run = 1
    /\ run' = 2
    /\ pc' = "main"
    /\ \E d \in {0, LOOKBACK_DAYS * DaySeconds} : now' = now + d
    /\ connected' = FALSE
    /\ processed_counts' = [c \in Channels |-> 0]
    /\ idx' = 1
    /\ last_time' = 0
    /\ new_messages' = <<>>
    /\ mi' = 1
    /\ ui' = 1
    /\ platform' = "none"
    /\ video_file' = NoPath
    /\ video_path' = NoPath
    /\ sent' = <<>>
    /\ attempts' = <<>>
    /\ skipped' = {}
    /\ UNCHANGED <<history, disk>>

Walker ==
    \/ Main
    \/ Ready
    \/ GetChannel
    \/ ScanHistory
    \/ FetchNew
    \/ NextUrl
    \/ Download
    \/ SizeGate
    \/ Reply
    \/ CleanUp
    \/ ChannelDone
    \/ Sleep
    \/ Summary
    \/ Close

\* One run of the process, users posting in every channel.
Next ==
    \/ UserPost
    \/ Walker

Spec == Init /\ [][Next]_vars

\* Two successive runs of the process, users posting single video links.
NextRerun ==
    \/ UserPostLink
    \/ Walker
    \/ Restart

SpecRerun == Init /\ [][NextRerun]_vars

(***************************************************************************)
(* get_platform on its own: on_ready has fetched one message whose text    *)
(* is one URL, any sequence of at most MaxUrlLen fragments after the       *)
(* scheme, and classifies it.                                              *)
(***************************************************************************)
RECURSIVE Seqs(_)
Seqs(n) ==
    IF n = 0 THEN {<<>>}
    ELSE LET shorter == Seqs(n - 1)
         IN  shorter \cup {Append(q, f) : q \in {r \in shorter : Len(r) = n - 1}, f \in Fragments}

Urls == {<<"https://">> \o q : q \in Seqs(MaxUrlLen)}

InitPlatform ==
    \E u \in Urls :
        LET m == [id |-> <<CHANNEL_IDS[1], 1>>, author |-> "user", created_at |-> 0,
                  content |-> <<u>>, reference |-> <<>>, run |-> 0]
        IN  /\ pc = "url"
            /\ run = 1
            /\ now = 0
            /\ history = [c \in Channels |-> IF c = CHANNEL_IDS[1] THEN <<m>> ELSE <<>>]
            /\ disk = [p \in {} |-> 0]
            /\ connected = TRUE
            /\ processed_counts = [c \in Channels |-> 0]
            /\ idx = 1
            /\ last_time = ResumeCursor(<<m>>, 0)
            /\ new_messages = <<m>>
            /\ mi = 1
            /\ ui = 1
            /\ platform = "none"
            /\ video_file = NoPath
            /\ video_path = NoPath
            /\ sent = <<>>
            /\ attempts = <<>>
            /\ skipped = {}

NextPlatform == NextUrl

SpecPlatform == InitPlatform /\ [][NextPlatform]_vars

(***************************************************************************)
(* Properties.                                                             *)
(***************************************************************************)
Messages(c) == {history[c][i] : i \in 1..Len(history[c])}
Elems(q) == {q[i] : i \in 1..Len(q)}
Max(S) == CHOOSE x \in S : \A y \in S : y <= x
Lookback == LOOKBACK_DAYS * DaySeconds

\* The text s occurs in the text u.
Has(u, s) ==
    \E a \in 0..(Len(u) - Len(s)) : \A j \in 1..Len(s) : u[a + j] = s[j]

Classified(u, p) ==
    LET ig == Has(u, <<"instagram.com", "/reel">>)
        yt == Has(u, <<"youtube.com">>) \/ Has(u, <<"youtu.be">>)
        rd == Has(u, <<"reddit.com">>)
    IN  /\ ig => p = "instagram"
        /\ (~ig /\ yt) => p = "youtube"
        /\ (~ig /\ ~yt /\ rd) => p = "reddit"
        /\ (~ig /\ ~yt /\ ~rd) => p = "unknown"

\* C8: get_platform returns instagram for every URL that contains
\* "instagram.com/reel", otherwise youtube for every URL that contains
\* "youtube.com" or "youtu.be", otherwise reddit for every URL that contains
\* "reddit.com", otherwise unknown; with several of them in one URL the first
\* rule in that order wins.
C8_PlatformPriority ==
    /\ pc = "download" => Classified(url, platform)
    /\ (pc = "url" /\ mi <= Len(new_messages) /\ ui > 1) => Classified(urls[ui - 1], platform)

\* A URL that contains "reddit.com" and "instagram.com/reel" was classified instagram.
C8_Witness ==
    /\ pc = "download"
    /\ platform = "instagram"
    /\ Has(url, <<"reddit.com">>)

\* The bot's replies of the current run in a channel.
RunReplies(c) == {m \in Messages(c) : m.author = "bot" /\ m.run = run}

MsgById(id) == history[id[1]][id[2]]

\* C1: after the processing of any URL ends, whatever the outcome (download
\* failure, compression failure, reply failure or success), no file created
\* for that URL exists on disk: wherever the walker stands between two URLs,
\* the working directory holds no artifact.
C1_NoArtifactBetweenUrls ==
    pc \in {"url", "channel_done", "sleep", "channel", "scan", "fetch", "summary",
            "close", "closed"}
        => \A u \in {URL_YT, URL_IG} :
              /\ ~Exists(disk, FileName(u))
              /\ ~Exists(disk, OutputPath(FileName(u)))

\* C2: once the ready event has fired, no failure of an external call ends
\* on_ready before the summary step: the run is never left aborted.
C2_NoFailureAbortsRun == pc # "aborted"

\* C3: at summary time the count of every channel is the number of messages
\* of that channel that were successfully replied to, also when a message
\* contains several recognized video URLs.
C3_CountIsRepliedMessages ==
    pc = "summary" =>
        \A c \in Channels :
            processed_counts[c] = Cardinality({m.reference : m \in RunReplies(c)})

\* C5: the summary is sent at most once per run, only after the channel loop
\* has gone through every configured channel, and it is one line per
\* configured channel in configuration order, each with the channel's final
\* count: the number of replies made there, 0 for a channel that was skipped.
C5_SummaryOncePerRun ==
    /\ Len(sent) <= 1
    /\ Len(sent) = 1 =>
         /\ pc \in {"close", "closed"}
         /\ idx = Len(CHANNEL_IDS) + 1
         /\ Len(sent[1]) = Len(CHANNEL_IDS)
         /\ \A i \in 1..Len(CHANNEL_IDS) :
              LET c == CHANNEL_IDS[i]
              IN  /\ sent[1][i] = <<"total", Cardinality(RunReplies(c)), "msg converted in", c>>
                  /\ c \in skipped => sent[1][i][2] = 0

\* The summary was sent after a run that skipped the second channel and
\* replied twice in the first.
C5_Witness ==
    /\ Len(sent) = 1
    /\ sent[1][1][2] = 2
    /\ CHANNEL_IDS[2] \in skipped

\* The URL contains the name of a known platform.
Known(u) ==
    \/ Has(u, <<"instagram.com", "/reel">>)
    \/ Has(u, <<"youtube.com">>)
    \/ Has(u, <<"youtu.be">>)
    \/ Has(u, <<"reddit.com">>)

\* The walker has left behind the k-th URL of the i-th fetched message.
Passed(i, k) == i < mi \/ (i = mi /\ k < ui)

\* C6: for every fetched message a download is attempted exactly once for
\* each extracted URL whose platform is not unknown and never for a URL
\* classified unknown, and the reply step is entered only for a URL whose
\* download returned a non-empty file name.
C6_DownloadPerRecognizedUrl ==
    /\ \A a \in 1..Len(attempts) :
         /\ Known(attempts[a].url)
         /\ \A b \in 1..Len(attempts) : attempts[a] = attempts[b] => a = b
    /\ \A i \in 1..Len(new_messages) :
         LET us == FindUrls(new_messages[i].content)
         IN  \A k \in 1..Len(us) :
                Passed(i, k) =>
                   (Known(us[k]) <=>
                      \E a \in 1..Len(attempts) :
                         attempts[a] = [msg |-> new_messages[i].id, ui |-> k, url |-> us[k]])
    /\ pc \in {"size", "reply", "cleanup"} =>
         /\ video_file # NoPath
         /\ attempts[Len(attempts)] = [msg |-> msg.id, ui |-> ui, url |-> url]

\* The walker is through a message with two recognized URLs and one URL of no
\* known platform: two downloads were attempted.
C6_Witness ==
    /\ pc = "channel_done"
    /\ Len(new_messages) = 1
    /\ Len(FindUrls(new_messages[1].content)) = 3
    /\ Len(attempts) = 2

\* C7: compress_video returns the input path unchanged and creates no new
\* file when the file is at or below the ceiling or when re-encoding fails;
\* otherwise it returns the distinct path compressed_<input> and leaves the
\* input file on disk.  A compression failure does not prevent the reply.
C7_CompressCreatesNoFileOnFallback ==
    [][pc = "size" /\ pc' # "aborted" =>
          /\ pc' = "reply"
          /\ \/ /\ video_path' = video_file
                /\ DOMAIN disk' = DOMAIN disk
             \/ /\ disk[video_file] > MAX_DISCORD_FILESIZE_MB
                /\ video_path' = OutputPath(video_file)
                /\ video_path' # video_file
                /\ DOMAIN disk' = DOMAIN disk \cup {video_path'}]_vars

\* C9: channels are handled in configured order; between a configured channel
\* that is not the last and the next one a 60-second pause occurs, also when
\* the channel is inaccessible and skipped; no pause follows the last channel.
C9_PauseBetweenAllChannels ==
    [][/\ idx' \in {idx, idx + 1}
       /\ (idx' = idx + 1 /\ idx < Len(CHANNEL_IDS)) =>
             (pc = "sleep" /\ now' = now + CooldownSeconds)
       /\ pc' = "sleep" => idx < Len(CHANNEL_IDS)]_vars

\* C9 as amended: a pause follows every channel that was walked and is not
\* the last; an inaccessible channel is left without a pause.
C9_PauseAfterWalkedChannel ==
    [][/\ idx' \in {idx, idx + 1}
       /\ (idx' = idx + 1 /\ idx < Len(CHANNEL_IDS)) =>
             \/ pc = "sleep" /\ now' = now + CooldownSeconds
             \/ pc = "channel" /\ channel_id \in skipped' /\ now' = now
       /\ (pc = "channel_done" /\ pc' # pc /\ idx < Len(CHANNEL_IDS)) => pc' = "sleep"
       /\ (pc = "sleep" /\ pc' = pc) => UNCHANGED <<walk, processed_counts, disk, sent>>
       /\ pc' = "sleep" => idx < Len(CHANNEL_IDS)]_vars

\* The bot pauses after it replied in the first channel.
C9_Witness ==
    /\ pc = "sleep"
    /\ idx = 1
    /\ processed_counts[CHANNEL_IDS[1]] > 0

\* on_ready has just fetched the messages of the channel it walks.
JustFetched == pc = "url" /\ mi = 1 /\ ui = 1

BotsOf(c) == {m \in Messages(c) : m.author = "bot"}

\* The messages a backward scan of the channel sees.
Scanned(c) ==
    {history[c][i] : i \in {j \in 1..Len(history[c]) : j > Len(history[c]) - ScanLimit}}

After(c, t) == {m \in Messages(c) : m.created_at > t}

Recognized(m) ==
    \E k \in 1..Len(FindUrls(m.content)) : get_platform(FindUrls(m.content)[k]) # "unknown"

RepliedIn(r, c) == {m.reference : m \in {b \in BotsOf(c) : b.run = r}}

\* C10: over two successive runs, the second run picks up after the last
\* message the first run replied to: no message that got a successful reply in
\* the first run is replied to again, and every message with a recognized URL
\* that the first run did not reply to successfully is fetched by the second
\* run when it lies within the lookback window.
C10_SecondRunFetchesUnreplied ==
    /\ \A c \in Channels : RepliedIn(1, c) \cap RepliedIn(2, c) = {}
    /\ (run = 2 /\ JustFetched /\ RepliedIn(1, channel_id) # {}) =>
         \A m \in Messages(channel_id) :
            (/\ m.author = "user"
             /\ Recognized(m)
             /\ m.id \notin RepliedIn(1, channel_id)
             /\ m.created_at > now - Lookback)
            => m \in Elems(new_messages)

\* C10 as amended: when the bot's last message is among the messages the
\* backward scan returns, the second run fetches only messages created more
\* than one second after every reply of the bot, so none of the messages the
\* bot replied to is fetched again.
C10_SecondRunResumesAfterLastReply ==
    (run = 2 /\ JustFetched /\ BotsOf(channel_id) \cap Scanned(channel_id) # {}) =>
        /\ \A m \in Elems(new_messages), b \in BotsOf(channel_id) :
             m.created_at > b.created_at + OffsetSeconds
        /\ \A b \in BotsOf(channel_id) : MsgById(b.reference) \notin Elems(new_messages)

\* The second run resumed after the first run's reply: it fetched a newer
\* message and left out an older message that never got a reply.
C10_Witness ==
    /\ run = 2
    /\ JustFetched
    /\ BotsOf(channel_id) \cap Scanned(channel_id) # {}
    /\ new_messages # <<>>
    /\ \E m \in Messages(channel_id) :
         /\ m.author = "user"
         /\ m.id \notin RepliedIn(1, channel_id)
         /\ m \notin Elems(new_messages)

=============================================================================
